---- MODULE Spec2Model ----
(***************************************************************************)
(* WhollySheet: the in-memory mirror of one GSheet tab (rows + key index)  *)
(* with its CRUDF operations, and RowModel, the typed row it stores.       *)
(*                                                                         *)
(* Each Table operation is an async method: it runs synchronously up to    *)
(* every `await` of a SheetSDK call, is suspended there, and resumes with  *)
(* the call's result.  One action models the synchronous stretch of code   *)
(* from one await to the next; the backend executes the awaited request    *)
(* atomically at the beginning of the resuming action.  Several Table      *)
(* instances work against the same backend tab.                            *)
(*                                                                         *)
(* WhollySheet.ts reads the row's meta fields as row / id / updated and    *)
(* RowModel declares them as _row / _id / _updated: the model takes them   *)
(* to be the same three fields and calls them row, id and updated.         *)
(***************************************************************************)
EXTENDS Integers, Sequences, FiniteSets, TLC

\* ---------------------------------------------------------------- bounds
\* How many Table operations a run calls.  Every operation appends at most
\* one row, generates at most one id and reads the clock at most once, so
\* this also bounds the tab's length, the ids and the clock.
MaxOps == 2

\* -------------------------------------------------------------- RowModel
noDate == -1
InvalidDate == -2
nilCell == "NUL"
RangeError == "RangeError"

Times == 1..(MaxOps + 1)
Dates == Times \cup {noDate, InvalidDate}

toISOString(d) == "T" \o ToString(d)

stringerDate(value) ==
  IF value = noDate THEN nilCell
  ELSE IF value = InvalidDate THEN RangeError
  ELSE toISOString(value)

\* A value that is undefined or null.
undefined == "undefined"

stringer(value) == IF value = undefined THEN nilCell ELSE value

newDate(value) ==
  IF \E t \in Times : toISOString(t) = value
  THEN CHOOSE t \in Times : toISOString(t) = value
  ELSE InvalidDate

typeCastDate(value) ==
  IF value # undefined /\ value # "" THEN newDate(value) ELSE noDate

\* typeCast of a field that holds a string.
typeCast(value) == IF value = undefined THEN "" ELSE value

header == <<"id", "updated", "name">>

RowModel == [row |-> 0, id |-> "", updated |-> noDate, name |-> ""]

\* val !== undefined && val !== null, for the cell at index i - 1
Given(vals, i) == i \in DOMAIN vals /\ vals[i] # undefined

\* assign(values) with an array: by position, as many cells as the header
\* has fields.
assign(this, vals) ==
  [this EXCEPT !.id = IF Given(vals, 1) THEN typeCast(vals[1]) ELSE @,
               !.updated = IF Given(vals, 2) THEN typeCastDate(vals[2]) ELSE @,
               !.name = IF Given(vals, 3) THEN typeCast(vals[3]) ELSE @]

\* What `key in this` holds for besides the row's own fields: the members
\* a RowModel inherits.
Inherited ==
  {"constructor", "toString", "keys", "header", "displayHeader", "prepare",
   "values", "typeCast", "assign", "validate", "toObject", "fromObject",
   "setCreate", "setUpdate", "setDelete"}

\* this.toString()
objectToString == "[object Object]"

\* assign(values) with an object: by name.  A key that is `in this` is
\* assigned; for an inherited member typeCast finds no type it knows and
\* returns this.toString(), which becomes a field of the row.
assignByName(this, obj) ==
  LET members == DOMAIN obj \cap Inherited
      Field(k) ==
        IF k \notin DOMAIN obj THEN this[k]
        ELSE IF k \in members /\ k \notin DOMAIN this THEN objectToString
        ELSE IF k = "updated" THEN typeCastDate(obj[k])
        ELSE typeCast(obj[k])
  IN [k \in DOMAIN this \cup members |-> Field(k)]

\* RowAction, and the $action accessor over $_action
RowAction == {"None", "Create", "Update", "Delete"}

getAction(this, act) ==
  IF act = "None" /\ this.row = 0 THEN "Create" ELSE act

\* The $action setter without its tests.
setActionUnchecked(this, act, value) == value

\* $_action after `this.$action = value`
setAction(this, act, value) ==
  IF value = "Create" /\ this.row # 0 THEN act
  ELSE IF value # "None" /\ this.row = 0 THEN act
  ELSE value

setCreate(this, act) ==
  IF this.row # 0 THEN [ret |-> FALSE, action |-> act]
  ELSE [ret |-> TRUE, action |-> "Create"]

setUpdate(this, act) ==
  IF this.row = 0 THEN [ret |-> FALSE, action |-> act]
  ELSE [ret |-> TRUE, action |-> "Update"]

setDelete(this, act) ==
  IF this.row = 0 THEN [ret |-> FALSE, action |-> act]
  ELSE [ret |-> TRUE, action |-> "Delete"]

uuidv4(n) == "u" \o ToString(n)

\* prepare that stamps the row and leaves its id as it is.
prepareKeepsId(this, n, t) == [this EXCEPT !.updated = t]

\* prepare that always generates an id.
prepareFreshId(this, n, t) == [this EXCEPT !.id = uuidv4(n), !.updated = t]

prepare(this, n, t) ==
  [this EXCEPT !.id = IF this.id = "" THEN uuidv4(n) ELSE this.id,
               !.updated = t]

compareDates(a, b) ==
  IF a = InvalidDate \/ b = InvalidDate THEN InvalidDate ELSE a - b

\* ----------------------------------------------------------- WhollySheet
keyColumn == "id"

typeRows(rs) == [i \in DOMAIN rs |-> assign(RowModel, rs[i])]

typeRow(r) == typeRows(<<r>>)[1]

\* nextRow that does not count the header row.
nextRowNoHeader(rs) == Len(rs) + 1

nextRow(rs) == Len(rs) + 2

Keys(rs) == {rs[i][keyColumn] : i \in DOMAIN rs}

Last(rs, k) == CHOOSE i \in DOMAIN rs :
  /\ rs[i][keyColumn] = k
  /\ \A j \in DOMAIN rs : rs[j][keyColumn] = k => j <= i

First(rs, k) == CHOOSE i \in DOMAIN rs :
  /\ rs[i][keyColumn] = k
  /\ \A j \in DOMAIN rs : rs[j][keyColumn] = k => i <= j

\* createIndex that keeps the entry a key already has.
createIndexKeepsFirst(rs) == [k \in Keys(rs) |-> First(rs, k)]

createIndex(rs) == [k \in Keys(rs) |-> Last(rs, k)]

values(model) ==
  <<stringer(model.id), stringerDate(model.updated), stringer(model.name)>>

checkId(model) == model[keyColumn] # ""

\* checkOutdated that compares the key only.
checkOutdatedKeyOnly(fetched, model) ==
  IF fetched = <<>> THEN {"Row not found"}
  ELSE IF fetched[1][keyColumn] # model[keyColumn] THEN {"key"} ELSE {}

\* checkOutdated that stops at the first mismatch it finds.
checkOutdatedFirstError(fetched, model) ==
  IF fetched = <<>> THEN {"Row not found"}
  ELSE IF compareDates(fetched[1].updated, model.updated) # 0 THEN {"updated"}
  ELSE IF fetched[1][keyColumn] # model[keyColumn] THEN {"key"} ELSE {}

\* checkOutdated that compares the update times and not the keys.
checkOutdatedUpdatedOnly(fetched, model) ==
  IF fetched = <<>> THEN {"Row not found"}
  ELSE IF compareDates(fetched[1].updated, model.updated) # 0
  THEN {"updated"} ELSE {}

checkOutdated(fetched, model) ==
  IF fetched = <<>> THEN {"Row not found"}
  ELSE (IF compareDates(fetched[1].updated, model.updated) # 0
        THEN {"updated"} ELSE {})
       \cup
       (IF fetched[1][keyColumn] # model[keyColumn] THEN {"key"} ELSE {})

\* refresh that numbers the rows without the header's offset.
refreshOffByOne(vals) ==
  LET rs == typeRows(Tail(vals))
  IN [i \in DOMAIN rs |-> [rs[i] EXCEPT !.row = (i - 1) + 1]]

refresh(vals) ==
  LET rs == typeRows(Tail(vals))
  IN [i \in DOMAIN rs |-> [rs[i] EXCEPT !.row = (i - 1) + 2]]

\* save that takes only a positive row for a persisted one.
savePositiveOnly(model) == IF model.row > 0 THEN "update" ELSE "create"

save(model) == IF model.row # 0 THEN "update" ELSE "create"

\* create with its position test reversed.
createRejectsNegative(model) == model.row < 0

createRejects(model) == model.row > 0

\* create that keeps its own bookkeeping whenever the row landed at or
\* below the position it asked for.
noOtherRowsAddedAtLeast(row, rs) == row >= nextRow(rs)

\* result.row === this.nextRow
noOtherRowsAdded(row, rs) == row = nextRow(rs)

\* create that looks at the cells of the answer only.
couldNotCreateNoValues(result) == result.values = <<>>

\* result.row < 1 || !result.values || result.values.length === 0
couldNotCreate(result) == result.row < 1 \/ result.values = <<>>

updateRejects(model) == model.row = 0

\* update that takes the position for the offset of the row below the header.
rowPosNoHeader(model) == model.row - 1

\* const rowPos = model.row - 2
rowPos(model) == model.row - 2

\* checkOutdated that returns early for negative positions only.
skipsCheckBelowZero(model) == model.row < 0

skipsCheck(model) == model.row < 1

\* --------------------------------------------------------------- SheetSDK
\* The tab as the backend holds it: row 1 is the header, rows 2..N the data.
Sheet(t) == <<header>> \o t

tabValues(t) == Sheet(t)

rowGet(t, p) == IF p \in 1..Len(Sheet(t)) THEN <<Sheet(t)[p]>> ELSE <<>>

HasRow(t, p) == p \in 2..(Len(t) + 1)

rowUpdate(t, p, vals) == [t EXCEPT ![p - 1] = vals]

rowDelete(t, p) == [i \in 1..(Len(t) - 1) |-> IF i < p - 1 THEN t[i] ELSE t[i + 1]]

rowCreate(t, vals) == Append(t, vals)

\* What the backend answers to an append: the position the row got and the
\* row's cells, one array of cells per row.
rowCreateResult(t, vals) == [row |-> Len(t) + 2, values |-> <<vals>>]

\* The answers to an append that reach create: the backend's, or one that
\* lacks the position or the cells.
rowCreateResults(t, vals) ==
  LET result == rowCreateResult(t, vals)
  IN {result, [result EXCEPT !.row = 0], [result EXCEPT !.values = <<>>]}

\* ------------------------------------------------------------------ state
Tables == {1, 2}
Names == {"y"}

VARIABLES
  tab,      \* the backend tab's data rows, each an array of cells
  now,      \* the clock new Date() reads
  uuids,    \* how many ids uuidv4() has generated
  solo,     \* TRUE when Table 1 is the only client of the tab
  table,    \* WhollySheet.table: the snapshot the Tables are constructed from
  inst,     \* a RowModel instance used on its own, and the last call made on it
  client,   \* the SheetsClient: its sheetData and its calls of getSheetData
  rows,     \* rows[t]: WhollySheet.rows of Table t
  index,    \* index[t]: WhollySheet.index, key -> offset of the row in rows[t]
  ops,      \* how many Table operations have been called
  pc,       \* pc[t]: the await Table t's running operation is suspended at
  call      \* call[t]: the running (or last) operation's arguments and locals

vars == <<tab, now, uuids, solo, table, inst, client, ops, rows, index, pc, call>>

NoCall ==
  [op |-> "none", via |-> "none", ref |-> 0, before |-> RowModel,
   start |-> RowModel,
   model |-> RowModel, fetched |-> <<>>, errors |-> {}, newRow |-> <<>>, req |-> <<>>,
   sent |-> <<>>, target |-> 0, answer |-> <<>>, preRows |-> <<>>, preIndex |-> <<>>,
   result |-> "none", ret |-> 0, clean |-> TRUE]

\* The calls of the client that may overlap.
Callers == {1, 2}

\* A SheetsClient after construction: sheetData undefined (0), no SheetSDK
\* (sdks) or SheetData (made) created, no call in progress. op is the
\* operation of the client each call belongs to, at its position in
\* getSheetData, data the SheetData getSheetData returned to it.
NoClient ==
  [sheetData |-> 0, sdks |-> 0, made |-> 0,
   op |-> [c \in Callers |-> "none"],
   at |-> [c \in Callers |-> "idle"], data |-> [c \in Callers |-> 0]]

\* $_action = RowAction.None on a new RowModel; no call made on it yet.
NoInst ==
  [this |-> RowModel, action |-> "None", op |-> "none", arg |-> <<>>,
   ret |-> <<>>, was |-> RowModel, wasAction |-> "None"]

\* The snapshot the Tables are constructed from: an empty tab, or a tab with
\* one row; the snapshot's rows carry their positions.
Snapshots == {<<>>, <<[row |-> 2, id |-> "a", updated |-> 1, name |-> "x"]>>}

Init ==
  /\ \E snap \in Snapshots :
       /\ tab = [i \in DOMAIN snap |-> values(snap[i])]
       /\ table = [header |-> header, rows |-> snap]
       /\ inst = NoInst
       /\ client = NoClient
       /\ rows = [t \in Tables |-> snap]
       /\ index = [t \in Tables |-> createIndex(snap)]
  /\ now = 1
  /\ uuids = 0
  /\ solo \in BOOLEAN
  /\ ops = 0
  /\ pc = [t \in Tables |-> "idle"]
  /\ call = [t \in Tables |-> NoCall]

Active(t) == t = 1 \/ ~solo

Idle(t) ==
  /\ Active(t)
  /\ pc[t] \in {"idle", "done"}
  /\ ops < MaxOps
  /\ ops' = ops + 1

\* The rows a caller can pass to a Table: a row it found in the Table
\* (ref > 0, possibly after editing a field of it), or a row it built itself.
Positions == {-1, 2}

Built ==
  {[RowModel EXCEPT !.id = i, !.name = "x"] : i \in {"", "a"}}
  \cup
  {[row |-> r, id |-> "a", updated |-> 1, name |-> "x"] : r \in Positions}

Begin(t, o, v, ref, rec, rs) ==
  [NoCall EXCEPT !.op = o, !.via = v, !.ref = ref, !.start = rec,
                 !.before = IF ref > 0 THEN rows[t][ref] ELSE rec,
                 !.model = rec, !.preRows = rs, !.preIndex = index[t],
                 !.result = "pending", !.clean = call[t].clean]

\* The model after a step of the operation changed it; the same object is a
\* row of rows[t] when the caller found it there.
Held(t, rs, c) == IF c.ref > 0 THEN [rs EXCEPT ![c.ref] = c.model] ELSE rs

\* rows[t] once the caller has edited the row it found there.
Edited(t, ref, rec) == IF ref > 0 THEN [rows[t] EXCEPT ![ref] = rec] ELSE rows[t]

Found(t) ==
  {[ref |-> i, rec |-> rows[t][i]] : i \in DOMAIN rows[t]}
  \cup
  {[ref |-> i, rec |-> [rows[t][i] EXCEPT !.name = n]] :
     i \in DOMAIN rows[t], n \in Names}

Args(t) == Found(t) \cup {[ref |-> 0, rec |-> r] : r \in Built}

\* clean: no operation of the Table has thrown so far.
Return(c, res, r) ==
  [c EXCEPT !.result = res, !.ret = r, !.clean = c.clean /\ res = "ok"]

\* ---------------------------------------------------------------- refresh
RefreshCall(t) ==
  /\ Idle(t)
  /\ pc' = [pc EXCEPT ![t] = "refresh"]
  /\ call' = [call EXCEPT ![t] =
       [Begin(t, "refresh", "direct", 0, RowModel, rows[t])
          EXCEPT !.sent = <<"tabValues">>]]
  /\ UNCHANGED <<tab, now, uuids, solo, table, inst, client, rows, index>>

Reloaded(t, c, res, r) ==
  /\ rows' = [rows EXCEPT ![t] = refresh(tabValues(tab))]
  /\ index' = [index EXCEPT ![t] = createIndex(rows'[t])]
  /\ pc' = [pc EXCEPT ![t] = "done"]
  /\ call' = [call EXCEPT ![t] = [Return(c, res, r) EXCEPT !.ref = 0]]

Failed(t, res) ==
  /\ pc' = [pc EXCEPT ![t] = "done"]
  /\ call' = [call EXCEPT ![t] = Return(call[t], res, 0)]

RefreshDone(t) ==
  /\ pc[t] = "refresh"
  /\ Reloaded(t, call[t], "ok", 0)
  /\ UNCHANGED <<ops, tab, now, uuids, solo, table, inst, client>>

\* A failed backend call that is sent once more.
BackendFailsRetried(t) ==
  /\ pc[t] \notin {"idle", "done"}
  /\ Len(call[t].sent) < 3
  /\ call' = [call EXCEPT ![t].sent = Append(@, @[Len(@)])]
  /\ UNCHANGED <<ops, tab, now, uuids, solo, table, inst, client, rows, index, pc>>

\* A backend call that fails changes nothing at the backend; the operation
\* throws what the call threw.
BackendFails(t) ==
  /\ pc[t] \notin {"idle", "done"}
  /\ Failed(t, "BackendError")
  /\ UNCHANGED <<ops, tab, now, uuids, solo, table, inst, client, rows, index>>

\* ----------------------------------------------------------------- create
\* model.prepare() generates an id for an empty id only, and reads the clock,
\* which has advanced since it was last read.
Prepared(c, tm) ==
  /\ tm = now + 1
  /\ now' = tm
  /\ uuids' = IF c.model.id = "" THEN uuids + 1 ELSE uuids

CreateCall(t, ref, rec, v) ==
  LET c == Begin(t, "create", v, ref, rec, Edited(t, ref, rec)) IN
  /\ Idle(t)
  /\ IF createRejects(rec)
     THEN /\ pc' = [pc EXCEPT ![t] = "done"]
          /\ call' = [call EXCEPT ![t] = Return(c, "InvalidState", 0)]
          /\ rows' = [rows EXCEPT ![t] = Edited(t, ref, rec)]
          /\ UNCHANGED <<tab, now, uuids, solo, table, inst, client, index>>
     ELSE \E tm \in {now + 1} :
          LET m == prepare(rec, uuids + 1, tm)
              c1 == [c EXCEPT !.model = m]
          IN
          /\ Prepared(c, tm)
          /\ rows' = [rows EXCEPT ![t] = Held(t, rows[t], c1)]
          /\ IF ~checkId(m)
             THEN /\ pc' = [pc EXCEPT ![t] = "done"]
                  /\ call' = [call EXCEPT ![t] = Return(c1, "MissingKey", 0)]
             ELSE /\ pc' = [pc EXCEPT ![t] = "create"]
                  /\ call' = [call EXCEPT ![t] =
                       [c1 EXCEPT !.req = values(m), !.sent = <<"rowCreate">>,
                                  !.target = nextRow(rows[t])]]
          /\ UNCHANGED <<tab, solo, table, inst, client, index>>

\* The backend appends below its last row and answers with the position the
\* row got; an answer without a valid position or without cells cannot be
\* interpreted.
CreateAppended(t, result) ==
  LET c == [call[t] EXCEPT !.answer = <<result>>]
      newRow == [typeRow(result.values[1]) EXCEPT !.row = result.row]
  IN
  /\ pc[t] = "create"
  /\ tab' = rowCreate(tab, c.req)
  /\ IF couldNotCreate(result)
     THEN /\ pc' = [pc EXCEPT ![t] = "done"]
          /\ call' = [call EXCEPT ![t] = Return(c, "PersistFailure", 0)]
          /\ UNCHANGED <<rows, index>>
     ELSE IF noOtherRowsAdded(result.row, rows[t])
     THEN /\ rows' = [rows EXCEPT ![t] = Append(rows[t], newRow)]
          /\ index' = [index EXCEPT ![t] = createIndex(rows'[t])]
          /\ pc' = [pc EXCEPT ![t] = "done"]
          /\ call' = [call EXCEPT ![t] =
               Return([c EXCEPT !.newRow = <<newRow>>], "ok",
                      index'[t][newRow[keyColumn]])]
     ELSE /\ pc' = [pc EXCEPT ![t] = "create_refresh"]
          /\ call' = [call EXCEPT ![t] =
               [c EXCEPT !.newRow = <<newRow>>,
                         !.sent = Append(c.sent, "tabValues")]]
          /\ UNCHANGED <<rows, index>>
  /\ UNCHANGED <<ops, now, uuids, solo, table, inst, client>>

Lookup(ix, k) == IF k \in DOMAIN ix THEN ix[k] ELSE 0

\* The fields of a row that hold a string; row holds a number and updated
\* a Date, which === equals neither a string nor a number.
StringFields == {"id", "name"}

\* find whose scan returns the last row that matches.
findLastMatch(rs, ix, value, columnName) ==
  LET key == IF columnName # "" THEN columnName ELSE keyColumn
      hits == {i \in DOMAIN rs : key \in StringFields /\ rs[i][key] = value}
  IN IF value = "" THEN 0
     ELSE IF columnName = keyColumn THEN Lookup(ix, value)
     ELSE IF hits = {} THEN 0
     ELSE CHOOSE i \in hits : \A j \in hits : i >= j

\* find(value, columnName) for a string value; columnName "" when omitted,
\* the result 0 when undefined.
find(rs, ix, value, columnName) ==
  LET key == IF columnName # "" THEN columnName ELSE keyColumn
      hits == {i \in DOMAIN rs : key \in StringFields /\ rs[i][key] = value}
  IN IF value = "" THEN 0
     ELSE IF columnName = keyColumn THEN Lookup(ix, value)
     ELSE IF hits = {} THEN 0
     ELSE CHOOSE i \in hits : \A j \in hits : i <= j

\* find(value, columnName) for a value with typeof value === 'number'.
findNumber(rs, ix, value, columnName) ==
  LET key == IF columnName # "" THEN columnName ELSE "row"
      hits == {i \in DOMAIN rs : key = "row" /\ rs[i].row = value}
  IN IF value = 0 THEN 0
     ELSE IF columnName = keyColumn THEN Lookup(ix, ToString(value))
     ELSE IF hits = {} THEN 0
     ELSE CHOOSE i \in hits : \A j \in hits : i <= j

CreateRefreshed(t) ==
  LET c == call[t]
      k == c.newRow[1][keyColumn]
  IN
  /\ pc[t] = "create_refresh"
  /\ Reloaded(t, c, "ok", Lookup(createIndex(refresh(tabValues(tab))), k))
  /\ UNCHANGED <<ops, tab, now, uuids, solo, table, inst, client>>

\* ----------------------------------------------------------------- update
UpdateCall(t, ref, rec, v) ==
  LET c == Begin(t, "update", v, ref, rec, Edited(t, ref, rec)) IN
  /\ Idle(t)
  /\ IF ~checkId(rec) \/ updateRejects(rec)
     THEN /\ pc' = [pc EXCEPT ![t] = "done"]
          /\ call' = [call EXCEPT ![t] =
               Return(c, IF ~checkId(rec) THEN "MissingKey" ELSE "InvalidState", 0)]
          /\ rows' = [rows EXCEPT ![t] = Edited(t, ref, rec)]
          /\ UNCHANGED <<now, uuids>>
     ELSE IF skipsCheck(rec)
     THEN \E tm \in {now + 1} :
          LET m == prepare(rec, uuids + 1, tm)
              c1 == [c EXCEPT !.model = m]
          IN
          /\ Prepared(c, tm)
          /\ rows' = [rows EXCEPT ![t] = Held(t, rows[t], c1)]
          /\ pc' = [pc EXCEPT ![t] = "update_write"]
          /\ call' = [call EXCEPT ![t] =
               [c1 EXCEPT !.req = values(m), !.sent = <<"rowUpdate">>]]
     ELSE /\ pc' = [pc EXCEPT ![t] = "update_check"]
          /\ call' = [call EXCEPT ![t] = [c EXCEPT !.sent = <<"rowGet">>]]
          /\ rows' = [rows EXCEPT ![t] = Edited(t, ref, rec)]
          /\ UNCHANGED <<now, uuids>>
  /\ UNCHANGED <<tab, solo, table, inst, client, index>>

Fetched(c) ==
  LET got == rowGet(tab, c.model.row)
  IN IF got = <<>> THEN <<>> ELSE <<typeRow(got[1])>>

UpdateChecked(t) ==
  LET c == [call[t] EXCEPT !.fetched = Fetched(call[t]),
                           !.errors = checkOutdated(Fetched(call[t]), call[t].model)]
  IN
  /\ pc[t] = "update_check"
  /\ IF checkOutdated(c.fetched, c.model) # {}
     THEN /\ pc' = [pc EXCEPT ![t] = "done"]
          /\ call' = [call EXCEPT ![t] = Return(c, "Conflict", 0)]
          /\ UNCHANGED <<now, uuids, rows>>
     ELSE \E tm \in {now + 1} :
          LET m == prepare(c.model, uuids + 1, tm)
              c1 == [c EXCEPT !.model = m]
          IN
          /\ Prepared(c, tm)
          /\ rows' = [rows EXCEPT ![t] = Held(t, rows[t], c1)]
          /\ pc' = [pc EXCEPT ![t] = "update_write"]
          /\ call' = [call EXCEPT ![t] =
               [c1 EXCEPT !.req = values(m),
                          !.sent = Append(c.sent, "rowUpdate")]]
  /\ UNCHANGED <<ops, tab, solo, table, inst, client, index>>

\* rows[rowPos].assign(updateValues) throws a TypeError when the Table holds
\* no row at rowPos.
\* update that leaves its own row as it was once the backend has answered.
UpdateReplacedUnassigned(t) ==
  LET c == call[t]
      o == rowPos(c.model) + 1
  IN
  /\ pc[t] = "update_write"
  /\ HasRow(tab, c.model.row)
  /\ tab' = rowUpdate(tab, c.model.row, c.req)
  /\ IF o \in DOMAIN rows[t]
     THEN /\ pc' = [pc EXCEPT ![t] = "done"]
          /\ call' = [call EXCEPT ![t] = Return(c, "ok", o)]
     ELSE Failed(t, "TypeError")
  /\ UNCHANGED <<ops, now, uuids, solo, table, inst, client, rows, index>>

UpdateReplaced(t) ==
  LET c == call[t]
      o == rowPos(c.model) + 1
  IN
  /\ pc[t] = "update_write"
  /\ HasRow(tab, c.model.row)
  /\ tab' = rowUpdate(tab, c.model.row, c.req)
  /\ IF o \in DOMAIN rows[t]
     THEN /\ rows' = [rows EXCEPT ![t][o] = assign(@, c.req)]
          /\ index' = [index EXCEPT ![t] = createIndex(rows'[t])]
          /\ pc' = [pc EXCEPT ![t] = "done"]
          /\ call' = [call EXCEPT ![t] =
               Return([c EXCEPT !.model =
                         IF c.ref = o THEN rows'[t][o] ELSE c.model], "ok", o)]
     ELSE /\ Failed(t, "TypeError")
          /\ UNCHANGED <<rows, index>>
  /\ UNCHANGED <<ops, now, uuids, solo, table, inst, client>>

\* A replace or delete addressed to a position that holds no data row fails.
NoSuchRow(t) ==
  /\ pc[t] \in {"update_write", "delete_write"}
  /\ ~HasRow(tab, call[t].model.row)
  /\ Failed(t, "BackendError")
  /\ UNCHANGED <<ops, tab, now, uuids, solo, table, inst, client, rows, index>>

\* ----------------------------------------------------------------- delete
DeleteCall(t, ref, rec) ==
  LET c == Begin(t, "delete", "direct", ref, rec, Edited(t, ref, rec)) IN
  /\ Idle(t)
  /\ rows' = [rows EXCEPT ![t] = Edited(t, ref, rec)]
  /\ IF skipsCheck(rec)
     THEN /\ pc' = [pc EXCEPT ![t] = "delete_write"]
          /\ call' = [call EXCEPT ![t] = [c EXCEPT !.sent = <<"rowDelete">>]]
     ELSE /\ pc' = [pc EXCEPT ![t] = "delete_check"]
          /\ call' = [call EXCEPT ![t] = [c EXCEPT !.sent = <<"rowGet">>]]
  /\ UNCHANGED <<tab, now, uuids, solo, table, inst, client, index>>

DeleteChecked(t) ==
  LET c == [call[t] EXCEPT !.fetched = Fetched(call[t]),
                           !.errors = checkOutdated(Fetched(call[t]), call[t].model)]
  IN
  /\ pc[t] = "delete_check"
  /\ IF checkOutdated(c.fetched, c.model) # {}
     THEN /\ pc' = [pc EXCEPT ![t] = "done"]
          /\ call' = [call EXCEPT ![t] = Return(c, "Conflict", 0)]
     ELSE /\ pc' = [pc EXCEPT ![t] = "delete_write"]
          /\ call' = [call EXCEPT ![t] =
               [c EXCEPT !.sent = Append(c.sent, "rowDelete")]]
  /\ UNCHANGED <<ops, tab, now, uuids, solo, table, inst, client, rows, index>>

DeleteDone(t) ==
  LET c == call[t] IN
  /\ pc[t] = "delete_write"
  /\ HasRow(tab, c.model.row)
  /\ tab' = rowDelete(tab, c.model.row)
  /\ rows' = [rows EXCEPT ![t] = typeRows(tab')]
  /\ index' = [index EXCEPT ![t] = createIndex(rows'[t])]
  /\ pc' = [pc EXCEPT ![t] = "done"]
  /\ call' = [call EXCEPT ![t] = [Return(c, "ok", 1) EXCEPT !.ref = 0]]
  /\ UNCHANGED <<ops, now, uuids, solo, table, inst, client>>

\* ------------------------------------------------------------------- save
SaveCall(t, ref, rec) ==
  IF save(rec) = "update"
  THEN UpdateCall(t, ref, rec, "save")
  ELSE CreateCall(t, ref, rec, "save")

Next ==
  \E t \in Tables :
    \/ RefreshCall(t)
    \/ RefreshDone(t)
    \/ BackendFails(t)
    \/ \E a \in Args(t) : CreateCall(t, a.ref, a.rec, "direct")
    \/ \E result \in rowCreateResults(tab, call[t].req) : CreateAppended(t, result)
    \/ CreateRefreshed(t)
    \/ \E a \in Args(t) : UpdateCall(t, a.ref, a.rec, "direct")
    \/ UpdateChecked(t)
    \/ UpdateReplaced(t)
    \/ NoSuchRow(t)
    \/ \E a \in Args(t) : DeleteCall(t, a.ref, a.rec)
    \/ DeleteChecked(t)
    \/ DeleteDone(t)
    \/ \E a \in Args(t) : SaveCall(t, a.ref, a.rec)

Spec == Init /\ [][Next]_vars

\* ------------------------------------------------------------ constructor
\* Array.prototype.join(): the elements with a comma between them.
RECURSIVE join(_)
join(h) ==
  IF h = <<>> THEN ""
  ELSE IF Len(h) = 1 THEN h[1]
  ELSE h[1] \o "," \o join(Tail(h))

\* TRUE when checkHeader returns, FALSE when it throws.
checkHeader(rs, tableHeader) ==
  IF Len(rs) = 0 THEN TRUE
  ELSE join(tableHeader) = join(header)

\* The headers a tab's first row can hold: the Row type's, and ones that
\* differ from it in order, length, spelling, or in where the names end.
TableHeaders ==
  { header,
    <<"updated", "id", "name">>,
    <<"id", "name", "updated">>,
    <<"id", "updated">>,
    <<"id", "updated", "name", "extra">>,
    <<"ID", "updated", "name">>,
    <<"id,updated", "name">>,
    <<>> }

TableRows ==
  Snapshots \cup
  { <<[row |-> 2, id |-> "b", updated |-> 1, name |-> "y"]>>,
    <<[row |-> 2, id |-> "a", updated |-> 1, name |-> "x"],
      [row |-> 3, id |-> "b", updated |-> 1, name |-> "y"]>> }

\* Before construction: the snapshot read from the tab, and no Table yet.
InitNew ==
  /\ \E h \in TableHeaders, snap \in TableRows :
       /\ table = [header |-> h, rows |-> snap]
       /\ tab = [i \in DOMAIN snap |-> values(snap[i])]
  /\ inst = NoInst
  /\ client = NoClient
  /\ rows = [t \in Tables |-> <<>>]
  /\ index = [t \in Tables |-> <<>>]
  /\ now = 1
  /\ uuids = 0
  /\ solo = FALSE
  /\ ops = 0
  /\ pc = [t \in Tables |-> "new"]
  /\ call = [t \in Tables |-> NoCall]

\* new WhollySheet(sheets, name, table): types the rows, checks the header
\* and builds the index; pc "idle" is a constructed Table, and a constructor
\* that threw leaves none.
New(t) ==
  /\ pc[t] = "new"
  /\ IF checkHeader(table.rows, table.header)
     THEN /\ rows' = [rows EXCEPT ![t] = table.rows]
          /\ index' = [index EXCEPT ![t] = createIndex(table.rows)]
          /\ pc' = [pc EXCEPT ![t] = "idle"]
          /\ UNCHANGED call
     ELSE /\ pc' = [pc EXCEPT ![t] = "done"]
          /\ call' = [call EXCEPT ![t] =
               [NoCall EXCEPT !.op = "new", !.result = "SchemaMismatch"]]
          /\ UNCHANGED <<rows, index>>
  /\ UNCHANGED <<tab, now, uuids, solo, table, inst, client, ops>>

NextNew == \E t \in Tables : New(t)

SpecNew == InitNew /\ [][NextNew]_vars

\* --------------------------------------------------------- RowModel alone
\* How many calls are made on the instance.
MaxCalls == MaxOps

\* The instances the calls start from: new rows and rows at a position.
Instances ==
  {[RowModel EXCEPT !.row = r, !.id = i, !.name = "x"] :
     r \in {-1, 0, 2}, i \in {"", "a"}}

\* Arrays of cells for assign: cells left out, empty, holding the sentinel
\* of an empty cell, or holding a value.
Cells ==
  {<<i, u, n>> : i \in {undefined, "b"}, u \in {undefined, "", toISOString(1)},
                 n \in {undefined, nilCell, "y"}}
  \cup {<<>>, <<"b">>}

\* Objects for assign: values for fields of the row, for a key the row
\* does not know, and for a key that names a member the row inherits.
Objects ==
  {[name |-> "y"], [name |-> undefined], [bogus |-> "y"],
   [id |-> "b", bogus |-> "y"], [updated |-> toISOString(1)],
   [prepare |-> "y"]}

InitRow ==
  /\ \E r \in Instances : inst = [NoInst EXCEPT !.this = r, !.was = r]
  /\ client = NoClient
  /\ tab = <<>>
  /\ table = [header |-> header, rows |-> <<>>]
  /\ rows = [t \in Tables |-> <<>>]
  /\ index = [t \in Tables |-> <<>>]
  /\ now = 1
  /\ uuids = 0
  /\ solo = FALSE
  /\ ops = 0
  /\ pc = [t \in Tables |-> "idle"]
  /\ call = [t \in Tables |-> NoCall]

Called(o, a, r, this, act) ==
  /\ ops < MaxCalls
  /\ ops' = ops + 1
  /\ inst' = [this |-> this, action |-> act, op |-> o, arg |-> a, ret |-> r,
              was |-> inst.this, wasAction |-> inst.action]
  /\ UNCHANGED <<tab, solo, table, client, rows, index, pc, call>>

SetCreate ==
  LET r == setCreate(inst.this, inst.action) IN
  /\ Called("setCreate", <<>>, <<r.ret>>, inst.this, r.action)
  /\ UNCHANGED <<now, uuids>>

SetUpdate ==
  LET r == setUpdate(inst.this, inst.action) IN
  /\ Called("setUpdate", <<>>, <<r.ret>>, inst.this, r.action)
  /\ UNCHANGED <<now, uuids>>

SetDelete ==
  LET r == setDelete(inst.this, inst.action) IN
  /\ Called("setDelete", <<>>, <<r.ret>>, inst.this, r.action)
  /\ UNCHANGED <<now, uuids>>

SetAction(value) ==
  /\ Called("setAction", <<value>>, <<>>, inst.this,
            setAction(inst.this, inst.action, value))
  /\ UNCHANGED <<now, uuids>>

\* The clock may or may not have advanced since it was last read.
Prepare(tm) ==
  /\ Called("prepare", <<>>, <<>>, prepare(inst.this, uuids + 1, tm), inst.action)
  /\ now' = tm
  /\ uuids' = IF inst.this.id = "" THEN uuids + 1 ELSE uuids

Assign(vals) ==
  /\ Called("assign", vals, <<>>, assign(inst.this, vals), inst.action)
  /\ UNCHANGED <<now, uuids>>

FromObject(obj) ==
  /\ Called("fromObject", <<obj>>, <<>>, assignByName(inst.this, obj), inst.action)
  /\ UNCHANGED <<now, uuids>>

\* new RowModel().assign(this.values())
Copy ==
  /\ Called("copy", values(inst.this), <<>>,
            assign(RowModel, values(inst.this)), "None")
  /\ UNCHANGED <<now, uuids>>

NextRow ==
  \/ SetCreate
  \/ SetUpdate
  \/ SetDelete
  \/ \E value \in RowAction : SetAction(value)
  \/ \E tm \in {now, now + 1} : Prepare(tm)
  \/ \E vals \in Cells : Assign(vals)
  \/ \E obj \in Objects : FromObject(obj)
  \/ Copy

SpecRow == InitRow /\ [][NextRow]_vars

\* ------------------------------------------------------------ properties
Done(t) == pc[t] = "done"
Ok(t) == Done(t) /\ call[t].result = "ok"
Threw(t) == Done(t) /\ call[t].result # "ok"
Key(r) == r[keyColumn]

C2_StaleRowConflicts ==
  \A t \in Tables :
    ( /\ call[t].op \in {"update", "delete"}
      /\ call[t].fetched # <<>>
      /\ call[t].fetched[1].updated # call[t].start.updated )
    => /\ Done(t)
       /\ call[t].result = "Conflict"
       /\ call[t].sent = <<"rowGet">>
       /\ rows[t] = call[t].preRows
       /\ index[t] = call[t].preIndex

C2_Witness ==
  \E t \in Tables :
    /\ call[t].op = "update"
    /\ call[t].start.row >= 2
    /\ call[t].fetched # <<>>
    /\ Key(call[t].fetched[1]) = Key(call[t].start)
    /\ call[t].fetched[1].updated # call[t].start.updated
    /\ call[t].result = "Conflict"

\* C3: a create that succeeds after the backend put the row at a position
\* other than the nextRow it asked for ends with rows being the backend's
\* data rows, typed and numbered from 2 as a full reload numbers them, with
\* the index rebuilt from them, and returns what find returns for the new
\* row's key in the key column.
C3_CreateRaceReloads ==
  [][\A t \in Tables :
       ( /\ call[t].op = "create"
         /\ ~Done(t)
         /\ Ok(t)'
         /\ call'[t].newRow[1].row # nextRow(rows[t]) )
       => /\ Len(rows'[t]) = Len(tab')
          /\ \A i \in DOMAIN rows'[t] :
               /\ rows'[t][i].row = i + 1
               /\ values(rows'[t][i]) = tab'[i]
          /\ index'[t] = createIndex(rows'[t])
          /\ call'[t].ret =
               find(rows'[t], index'[t], Key(call'[t].newRow[1]), keyColumn)
    ]_vars

C3_Witness ==
  \E t \in Tables :
    /\ Ok(t)
    /\ call[t].op = "create"
    /\ call[t].sent = <<"rowCreate", "tabValues">>
    /\ call[t].newRow[1].row > nextRow(call[t].preRows)
    /\ Len(rows[t]) = Len(call[t].preRows) + 2
    /\ call[t].ret = Len(rows[t])

\* C4 (as stated): when a create, update, delete or refresh fails, rows, the
\* field values of its rows, and the index are what they were when the
\* operation was called.
C4_ErrorAtomicity ==
  \A t \in Tables : Threw(t) =>
    /\ rows[t] = call[t].preRows
    /\ index[t] = call[t].preIndex

\* C5: the replace request of an update goes out on the strength of the row
\* read before it alone (that row's updatedAt and key matched the caller's),
\* and once it is sent the update never ends with Conflict, whatever the
\* backend holds by then.
C5_ReadThenCompare ==
  \A t \in Tables :
    ( /\ call[t].op = "update"
      /\ call[t].fetched # <<>>
      /\ "rowUpdate" \in {call[t].sent[i] : i \in DOMAIN call[t].sent} )
    => /\ call[t].fetched[1].updated = call[t].start.updated
       /\ Key(call[t].fetched[1]) = Key(call[t].start)
       /\ call[t].result # "Conflict"

\* Two Tables read the same version of the same row, both pass the check,
\* both replace it and both return normally: the backend holds the later
\* writer's row only.
C5_Witness ==
  /\ Ok(1) /\ Ok(2)
  /\ call[1].op = "update" /\ call[2].op = "update"
  /\ call[1].start.row = call[2].start.row
  /\ call[1].fetched # <<>>
  /\ call[1].fetched = call[2].fetched
  /\ call[1].req # call[2].req
  /\ tab[call[1].start.row - 1] = call[2].req

\* C6 (as stated): a delete of a row at position 0 is rejected and sends no
\* delete request.
C6_DeleteUnpersistedRejected ==
  \A t \in Tables :
    (call[t].op = "delete" /\ call[t].start.row = 0)
    => /\ call[t].sent = <<>>
       /\ Threw(t)

\* C7: after a successful refresh (the one create falls back to included),
\* the row at offset i of rows has position i + 2.
C7_RefreshPositions ==
  \A t \in Tables :
    ( /\ Ok(t)
      /\ call[t].sent # <<>>
      /\ call[t].sent[Len(call[t].sent)] = "tabValues" )
    => \A i \in DOMAIN rows[t] : rows[t][i].row = (i - 1) + 2

C7_Witness ==
  \E t \in Tables :
    /\ Ok(t)
    /\ call[t].op = "refresh"
    /\ Len(rows[t]) = 2
    /\ rows[t][1].row = 2
    /\ rows[t][2].row = 3

\* C8 (as stated): with one Table as the only writer, after each successful
\* operation (of a run in which no operation threw) rows has as many rows
\* as the backend has data rows, and the row at offset i carries position
\* i + 2 and the cells the backend stores at that position.
C8_Mirror ==
  (solo /\ Ok(1) /\ call[1].clean) =>
    /\ Len(rows[1]) = Len(tab)
    /\ \A i \in DOMAIN rows[1] :
         /\ rows[1][i].row = i + 1
         /\ values(rows[1][i]) = Sheet(tab)[rows[1][i].row]

C10_CreatePositionedRejected ==
  \A t \in Tables :
    (call[t].op = "create" /\ call[t].start.row > 0)
    => /\ Done(t)
       /\ call[t].result = "InvalidState"
       /\ call[t].model = call[t].start
       /\ call[t].sent = <<>>
       /\ rows[t] = call[t].preRows
       /\ index[t] = call[t].preIndex

C10_Witness ==
  \E t \in Tables :
    /\ call[t].op = "create"
    /\ call[t].start.row > 0
    /\ call[t].result = "InvalidState"
    /\ call[t].ref > 0

\* C11 (as stated): an update of a row whose key is not empty and whose
\* position is zero or negative ends with InvalidState and sends neither
\* the staleness read nor the replace request.
C11_UpdateUnpersistedRejected ==
  \A t \in Tables :
    ( /\ call[t].op = "update"
      /\ checkId(call[t].start)
      /\ call[t].start.row <= 0 )
    => /\ Done(t)
       /\ call[t].result = "InvalidState"
       /\ call[t].sent = <<>>

C13_CreateFastPath ==
  [][\A t \in Tables :
       ( /\ call[t].op = "create"
         /\ pc[t] = "create"
         /\ Ok(t)'
         /\ call'[t].newRow[1].row = call[t].target )
       => LET n == Len(rows[t])
              new == rows'[t][n + 1]
          IN /\ call[t].target = n + 2
             /\ Len(rows'[t]) = n + 1
             /\ \A i \in DOMAIN rows[t] : rows'[t][i] = rows[t][i]
             /\ new.row = call[t].target
             /\ values(new) = tab'[Len(tab')]
             /\ call'[t].ret = index'[t][Key(new)]
             /\ call'[t].ret = n + 1
             /\ n = 0 => /\ Len(rows'[t]) = 1
                         /\ rows'[t][1].row = 2
                         /\ index'[t][rows'[t][1].id] = 1
    ]_vars

\* create({name: "x"}) on an empty Table, answered with position 2.
C13_Witness ==
  \E t \in Tables :
    /\ Ok(t)
    /\ call[t].op = "create"
    /\ call[t].start.id = ""
    /\ call[t].preRows = <<>>
    /\ call[t].target = 2
    /\ call[t].sent = <<"rowCreate">>
    /\ Len(rows[t]) = 1
    /\ rows[t][1].row = 2
    /\ rows[t][1].id = uuidv4(1)
    /\ index[t][uuidv4(1)] = 1
    /\ call[t].ret = 1

\* C14: whenever the answer to create's append carries a position below 1
\* or no cells, create ends with PersistFailure, and the step that throws
\* it leaves rows and index as they were when the answer arrived; create
\* throws PersistFailure on no other answer.
C14_PersistFailure ==
  /\ [](\A t \in Tables :
          (call[t].op = "create" /\ call[t].answer # <<>>) =>
            ( (call[t].answer[1].row < 1 \/ call[t].answer[1].values = <<>>)
              <=> (Done(t) /\ call[t].result = "PersistFailure") ))
  /\ [][\A t \in Tables :
          (pc[t] = "create" /\ call'[t].result = "PersistFailure")
          => (rows'[t] = rows[t] /\ index'[t] = index[t])
       ]_vars

\* Both kinds of answer have made a create throw PersistFailure: one Table
\* got an answer without a position, the other one without cells.
C14_Witness ==
  \E t, u \in Tables :
    /\ call[t].result = "PersistFailure"
    /\ call[t].answer[1].row < 1
    /\ call[t].answer[1].values # <<>>
    /\ call[u].result = "PersistFailure"
    /\ call[u].answer[1].row >= 2
    /\ call[u].answer[1].values = <<>>
    /\ rows[t] = call[t].preRows
    /\ index[t] = call[t].preIndex

\* C15: when the staleness read of a row at a position of 1 or more is
\* answered, the operation ends with Conflict if and only if the backend
\* holds no row at that position, or the row it holds there carries an
\* updatedAt other than the caller's, or a key other than the caller's; the
\* one Conflict names every mismatch there is, both when both differ.
C15_Conflict ==
  [][\A t \in Tables :
       ( /\ pc[t] \in {"update_check", "delete_check"}
         /\ pc'[t] # pc[t]
         /\ call'[t].result # "BackendError" )
       => LET m == call[t].model
              got == rowGet(tab, m.row)
              gone == got = <<>>
              stale == ~gone /\ typeRow(got[1]).updated # m.updated
              other == ~gone /\ Key(typeRow(got[1])) # Key(m)
          IN /\ m.row >= 1
             /\ call'[t].result = "Conflict" <=> (gone \/ stale \/ other)
             /\ call'[t].result # "Conflict" => pc'[t] # "done"
             /\ call'[t].errors =
                  (IF gone THEN {"Row not found"} ELSE {})
                  \cup (IF stale THEN {"updated"} ELSE {})
                  \cup (IF other THEN {"key"} ELSE {})
    ]_vars

\* The row at the caller's position is another row, written at another
\* time: one Conflict with both mismatches.
C15_Witness ==
  \E t \in Tables :
    /\ call[t].op = "update"
    /\ call[t].start.row >= 2
    /\ call[t].result = "Conflict"
    /\ call[t].fetched # <<>>
    /\ call[t].fetched[1].updated # call[t].start.updated
    /\ Key(call[t].fetched[1]) # Key(call[t].start)
    /\ call[t].errors = {"updated", "key"}

\* C16: for a row at a position below 1, checkOutdated returns false and
\* reads nothing: an update or delete of such a row never sends the
\* staleness read and never ends with Conflict, and where the operation
\* gets as far as checkOutdated it goes on to its write request, which is
\* then the first request it sends.
C16_UnpersistedNotOutdated ==
  \A t \in Tables :
    (call[t].op \in {"update", "delete"} /\ call[t].start.row < 1) =>
      /\ \A i \in DOMAIN call[t].sent : call[t].sent[i] # "rowGet"
      /\ call[t].fetched = <<>>
      /\ call[t].errors = {}
      /\ call[t].result # "Conflict"
      /\ call[t].op = "delete" => call[t].sent = <<"rowDelete">>
      /\ (call[t].op = "update" /\ checkId(call[t].start)
            /\ ~updateRejects(call[t].start))
           => call[t].sent = <<"rowUpdate">>

\* Both operations that call checkOutdated have passed it without a read:
\* a delete of a row at position 0 and an update of a row at position -1.
C16_Witness ==
  \E t, u \in Tables :
    /\ call[t].op = "delete"
    /\ call[t].start.row = 0
    /\ call[t].sent = <<"rowDelete">>
    /\ call[u].op = "update"
    /\ call[u].start.row = -1
    /\ call[u].sent = <<"rowUpdate">>

\* C17: after a successful update of a row at position p, the row of rows
\* at offset p - 2 holds the cells the backend returned for the replace,
\* the index is the one createIndex builds from rows, and update has
\* returned that row of rows.
C17_UpdateOverwrites ==
  \A t \in Tables :
    (Ok(t) /\ call[t].op = "update") =>
      LET o == (call[t].start.row - 2) + 1 IN
      /\ o \in DOMAIN rows[t]
      /\ values(rows[t][o]) = call[t].req
      /\ index[t] = createIndex(rows[t])
      /\ call[t].ret = o

\* An update of the row at position 2 the caller has given a new name:
\* rows[0] has the name and the updatedAt prepare stamped, as the backend
\* returned them.
C17_Witness ==
  \E t \in Tables :
    /\ Ok(t)
    /\ call[t].op = "update"
    /\ call[t].start.row = 2
    /\ call[t].start.name = "y"
    /\ values(call[t].start) # call[t].req
    /\ rows[t][1].name = "y"
    /\ rows[t][1].updated > call[t].start.updated
    /\ call[t].sent = <<"rowGet", "rowUpdate">>
    /\ call[t].ret = 1

\* C18 (as stated): a delete of a row with key k that succeeds returns true
\* and leaves rows the typed form of the rows the backend has left, with
\* find(k, keyColumn) absent; and a key leaves the index, or rows gets
\* shorter, only in the step that ends a successful delete or a reload.
C18_DeleteRemoves ==
  [][\A t \in Tables :
       /\ (pc[t] = "delete_write" /\ Ok(t)') =>
            /\ call'[t].ret = 1
            /\ rows'[t] = typeRows(tab')
            /\ find(rows'[t], index'[t], Key(call[t].start), keyColumn) = 0
       /\ ( \/ Len(rows'[t]) < Len(rows[t])
            \/ \E k \in DOMAIN index[t] : k \notin DOMAIN index'[t] ) =>
            /\ Ok(t)'
            /\ \/ call'[t].op = "delete"
               \/ call'[t].sent[Len(call'[t].sent)] = "tabValues"
    ]_vars

\* The values and column names find is asked with.
FindStrings == {"", "a", "x", "y"} \cup {uuidv4(n) : n \in 1..MaxOps}
FindNumbers == {-1, 0} \cup {p + 1 : p \in 1..(MaxOps + 1)}
FindColumns == {"", "row", "id", "updated", "name"}

\* The first row of rs that satisfies Matches, 0 when there is none.
FirstRow(rs, Matches(_)) ==
  IF \E i \in DOMAIN rs : Matches(rs[i])
  THEN CHOOSE i \in DOMAIN rs :
         Matches(rs[i]) /\ \A j \in 1..(i - 1) : ~Matches(rs[j])
  ELSE 0

C20_SchemaMismatch ==
  \A t \in Tables :
    pc[t] # "new" =>
      /\ table.header # header =>
           (pc[t] = "done" /\ call[t].result = "SchemaMismatch")
      /\ pc[t] = "idle" => table.header = header

\* C21: whatever setCreate, setUpdate, setDelete calls and $action
\* assignments a row at one position has seen, its pending action is not
\* Create while the position is not zero, and not Update or Delete while it
\* is zero; a call that would break this returns false (an assignment has
\* no return value) and leaves $_action as it was; a call that may be made
\* returns true and the pending action is what it asked for (a new row's
\* pending action reads Create when none is set).
C21_PendingAction ==
  LET pending == getAction(inst.this, inst.action)
      zero == inst.this.row = 0
      May(a) == IF a = "Create" THEN zero ELSE a = "None" \/ ~zero
      Asked(a) == IF a = "None" /\ zero THEN "Create" ELSE a
      Set(a) ==
        /\ May(a) => inst.ret = <<TRUE>> /\ pending = a
        /\ ~May(a) => inst.ret = <<FALSE>> /\ inst.action = inst.wasAction
  IN
  /\ pending = "Create" => zero
  /\ pending \in {"Update", "Delete"} => ~zero
  /\ inst.op = "setCreate" => Set("Create")
  /\ inst.op = "setUpdate" => Set("Update")
  /\ inst.op = "setDelete" => Set("Delete")
  /\ inst.op = "setAction" =>
       /\ May(inst.arg[1]) => pending = Asked(inst.arg[1])
       /\ ~May(inst.arg[1]) => inst.action = inst.wasAction

\* A row at position 2 with Update pending has refused setCreate.
C21_Witness ==
  /\ inst.op = "setCreate"
  /\ inst.this.row = 2
  /\ inst.ret = <<FALSE>>
  /\ inst.wasAction = "Update"
  /\ inst.action = "Update"

\* C22: prepare gives the row a newly generated id when its id is empty and
\* leaves an id that is not empty as it is, so the row has the id its first
\* prepare left it with however often prepare is called again; every call
\* sets updatedAt to the time of the call.
C22_PrepareIdempotent ==
  inst.op = "prepare" =>
    /\ inst.was.id # "" => inst.this.id = inst.was.id
    /\ inst.was.id = "" => inst.this.id = uuidv4(uuids)
    /\ inst.this.id # ""
    /\ \A tm \in {now, now + 1} :
         prepare(inst.this, uuids + 1, tm).id = inst.this.id
    /\ inst.this.updated = now

\* The second prepare of a row that came without an id: a later updatedAt,
\* the id of the first.
C22_Witness ==
  /\ inst.op = "prepare"
  /\ inst.was.id = uuidv4(1)
  /\ inst.this.id = uuidv4(1)
  /\ inst.was.updated = 1
  /\ inst.this.updated = 2
  /\ uuids = 1

\* C23 (as stated): a new instance that is assigned the values() of a row
\* has, for every field of the header and in header order, the value the
\* row has, a date field without a date included.
C23_WireRoundTrip ==
  inst.op = "copy" =>
    /\ inst.arg = values(inst.was)
    /\ inst.this.id = inst.was.id
    /\ inst.this.updated = inst.was.updated
    /\ inst.this.name = inst.was.name

\* C24 (as stated): stringer writes an undefined value and the empty string
\* as different cells, and a string field that is assigned the sentinel of
\* an empty cell holds the empty string.
C24_Sentinel ==
  /\ stringer(undefined) # stringer("")
  /\ (inst.op = "assign" /\ Given(inst.arg, 3) /\ inst.arg[3] = nilCell)
       => inst.this.name = ""

\* C25 (as stated): assign changes no field it is given no value for.  By
\* name, a key that is not a field of the row adds no field and changes
\* none; by position, a cell that is null or undefined, or missing, leaves
\* the field at its place in the header as it was.
C25_AssignFrame ==
  /\ inst.op = "fromObject" =>
       /\ DOMAIN inst.this = DOMAIN inst.was
       /\ \A k \in DOMAIN inst.was :
            k \notin DOMAIN inst.arg[1] => inst.this[k] = inst.was[k]
  /\ inst.op = "assign" =>
       /\ DOMAIN inst.this = DOMAIN inst.was
       /\ inst.this.row = inst.was.row
       /\ \A i \in DOMAIN header :
            ~Given(inst.arg, i) => inst.this[header[i]] = inst.was[header[i]]

\* The backend calls each operation may have sent, in their order.
Requests(op) ==
  IF op = "create" THEN {<<>>, <<"rowCreate">>, <<"rowCreate", "tabValues">>}
  ELSE IF op = "update"
  THEN {<<>>, <<"rowGet">>, <<"rowGet", "rowUpdate">>, <<"rowUpdate">>}
  ELSE IF op = "delete"
  THEN {<<>>, <<"rowGet">>, <<"rowGet", "rowDelete">>, <<"rowDelete">>}
  ELSE {<<>>, <<"tabValues">>}

\* C26: a create, update or delete sends its backend calls one after
\* another, each at most once and at most one of them a write (append,
\* replace or delete-row); an operation waits for one call at a time, the
\* last it sent; the step in which a backend call fails sends nothing, ends
\* the operation, and the operation throws the failure.
C26_NoRetry ==
  /\ [](\A t \in Tables :
          /\ call[t].op \in {"create", "update", "delete"} =>
               call[t].sent \in Requests(call[t].op)
          /\ pc[t] \notin {"idle", "done"} => call[t].sent # <<>>
          /\ call[t].result = "BackendError" => Done(t))
  /\ [][\A t \in Tables :
          ( /\ call[t].result = "pending"
            /\ call'[t].result = "BackendError" )
          => /\ pc'[t] = "done"
             /\ call'[t].sent = call[t].sent
             /\ tab' = tab
       ]_vars

\* The replace request of an update has failed after its read had passed:
\* two calls sent, none repeated, the update has thrown.
C26_Witness ==
  \E t \in Tables :
    /\ call[t].op = "update"
    /\ call[t].start.row = 2
    /\ call[t].result = "BackendError"
    /\ call[t].sent = <<"rowGet", "rowUpdate">>
    /\ call[t].fetched # <<>>
    /\ Done(t)

\* ----------------------------------------------------------- SheetsClient
\* The SheetsClient on top of a Table (its projects or judgings): each of
\* its operations first finds the row by its key and then calls the Table
\* with the row it found. Table 1 and Table 2 are the Tables of two
\* clients over the one backend tab.
Ids == {"", "a", "b", uuidv4(1)}

\* `throw new Error('... not found for ...')`: the client's operation ends
\* without any call to the Table.
NotFound(t, o, ref, id) ==
  /\ Idle(t)
  /\ pc' = [pc EXCEPT ![t] = "done"]
  /\ call' = [call EXCEPT ![t] =
       Return(Begin(t, o, "direct", ref, [RowModel EXCEPT !.id = id], rows[t]),
              "NotFound", 0)]
  /\ UNCHANGED <<tab, now, uuids, solo, table, inst, client, rows, index>>

\* updateProject that updates a row of its own making when it finds none.
updateProjectUnchecked(t, id, n) ==
  LET project == find(rows[t], index[t], id, keyColumn)
      made == [RowModel EXCEPT !.row = 2, !.id = id, !.name = n]
  IN IF project # 0
     THEN UpdateCall(t, project,
                     assignByName(rows[t][project], [id |-> id, name |-> n]),
                     "direct")
     ELSE UpdateCall(t, 0, made, "direct")

updateProject(t, id, n) ==
  LET project == find(rows[t], index[t], id, keyColumn) IN
  IF project # 0
  THEN UpdateCall(t, project,
                  assignByName(rows[t][project], [id |-> id, name |-> n]),
                  "direct")
  ELSE NotFound(t, "updateProject", 0, id)

deleteProject(t, id) ==
  LET project == find(rows[t], index[t], id, keyColumn) IN
  IF project # 0
  THEN DeleteCall(t, project, rows[t][project])
  ELSE NotFound(t, "deleteProject", 0, id)

saveJudging(t, id, n) ==
  LET judging == find(rows[t], index[t], id, keyColumn) IN
  IF judging # 0
  THEN SaveCall(t, judging,
                assignByName(rows[t][judging], [id |-> id, name |-> n]))
  ELSE NotFound(t, "saveJudging", 0, id)

\* project.leave(hacker) and project.join(hacker) are calls on the row
\* found; they leave the projects Table as it is.
changeMembership(t, id, hacker) ==
  LET project == find(rows[t], index[t], id, keyColumn) IN
  IF project # 0
  THEN IF hacker
       THEN /\ Idle(t)
            /\ pc' = [pc EXCEPT ![t] = "done"]
            /\ call' = [call EXCEPT ![t] =
                 Return(Begin(t, "changeMembership", "direct", project,
                              rows[t][project], rows[t]),
                        "ok", project)]
            /\ UNCHANGED <<tab, now, uuids, solo, table, inst, client, rows, index>>
       ELSE NotFound(t, "changeMembership", project, id)
  ELSE NotFound(t, "changeMembership", 0, id)

\* createProject: a new Project, filled from the properties, saved.
createProject(t, n) ==
  SaveCall(t, 0, assignByName(RowModel, [name |-> n]))

\* getProjects: getSheetProjects(true) refreshes the Table.
getProjects(t) == RefreshCall(t)

NextClient ==
  \E t \in Tables :
    \/ getProjects(t)
    \/ RefreshDone(t)
    \/ BackendFails(t)
    \/ \E n \in Names : createProject(t, n)
    \/ \E result \in rowCreateResults(tab, call[t].req) : CreateAppended(t, result)
    \/ CreateRefreshed(t)
    \/ \E id \in Ids, n \in Names : updateProject(t, id, n)
    \/ UpdateChecked(t)
    \/ UpdateReplaced(t)
    \/ NoSuchRow(t)
    \/ \E id \in Ids : deleteProject(t, id)
    \/ DeleteChecked(t)
    \/ DeleteDone(t)
    \/ \E id \in Ids, n \in Names : saveJudging(t, id, n)
    \/ \E id \in Ids, hacker \in BOOLEAN : changeMembership(t, id, hacker)

SpecClient == Init /\ [][NextClient]_vars

\* C28: when a client's updateProject, deleteProject, saveJudging or
\* changeMembership starts and find by the key gives no row of the Table,
\* the operation throws not-found at once: no request is sent and backend,
\* rows and index stay as they were. A Table update, delete or create that
\* one of them starts is on the row find gave (createProject alone creates
\* a row it built, with no id).
C28_NotFound ==
  [][\A t \in Tables :
       ( /\ pc[t] \in {"idle", "done"}
         /\ call'[t] # call[t]
         /\ call'[t].op # "refresh" )
       => LET c == call'[t]
              project == find(rows[t], index[t], c.start.id, keyColumn)
              builds == c.op = "create" /\ c.ref = 0 /\ c.start.id = ""
          IN /\ (project = 0 /\ ~builds) =>
                  /\ c.result = "NotFound"
                  /\ pc'[t] = "done"
                  /\ c.sent = <<>>
                  /\ tab' = tab /\ rows' = rows /\ index' = index
             /\ (c.op \in {"create", "update", "delete"} /\ ~builds) =>
                  /\ project # 0
                  /\ c.ref = project
                  /\ c.start.id = rows[t][project].id
             /\ c.op \notin {"create", "update", "delete"} => c.sent = <<>>
    ]_vars

\* deleteProject has thrown not-found in a Table that has rows, the backend
\* has rows, and nothing was sent.
C28_Witness ==
  \E t \in Tables :
    /\ Done(t)
    /\ call[t].op = "deleteProject"
    /\ call[t].result = "NotFound"
    /\ call[t].sent = <<>>
    /\ rows[t] # <<>>
    /\ tab # <<>>

\* C29 (as stated): after every successful create, update, delete or
\* refresh of a Table, the row at offset i of its rows carries position
\* i + 2 (offsets from 0; the sequences here count from 1).
C29_Positions ==
  \A t \in Tables :
    (Ok(t) /\ call[t].op \in {"create", "update", "delete", "refresh"}) =>
      \A i \in DOMAIN rows[t] : rows[t][i].row = (i - 1) + 2

\* What checkOutdated finds wrong with a row against the backend tb; nothing
\* when it skips the check.
Outdated(tb, model) ==
  LET got == rowGet(tb, model.row)
      fetched == IF got = <<>> THEN <<>> ELSE <<typeRow(got[1])>>
  IN IF skipsCheck(model) THEN {} ELSE checkOutdated(fetched, model)

\* C30: on the step that completes a successful update, the caller's row
\* and the row update returns both carry the update time the backend now
\* stores at the updated position, and checkOutdated of either against the
\* backend as the update left it finds nothing: an update or delete of
\* either that follows with no other write in between does not throw
\* Conflict.
C30_RepeatedUpdate ==
  [][\A t \in Tables :
       ( /\ pc[t] = "update_write"
         /\ pc'[t] = "done"
         /\ call'[t].result = "ok" )
       => LET model == call'[t].model
              returned == rows'[t][call'[t].ret]
              stored == typeRow(rowGet(tab', model.row)[1])
          IN /\ model.updated = stored.updated
             /\ returned.updated = stored.updated
             /\ Outdated(tab', model) = {}
             /\ Outdated(tab', returned) = {}
    ]_vars

\* An update of a row the caller built has succeeded after its check
\* against the backend; the row it returned is another object, the Table's
\* own, at the same position, where checkOutdated does not skip the check.
C30_Witness ==
  \E t \in Tables :
    /\ Ok(t)
    /\ call[t].op = "update"
    /\ call[t].ref = 0
    /\ call[t].sent = <<"rowGet", "rowUpdate">>
    /\ ~skipsCheck(call[t].model)
    /\ ~skipsCheck(rows[t][call[t].ret])
    /\ rows[t][call[t].ret].row = call[t].model.row
    /\ call[t].start.updated # call[t].model.updated

\* C31 (as stated): with one Table as the only writer, when an update has
\* passed checkOutdated and its replace request has then failed with the
\* backend row unchanged, checkOutdated of the same row object against the
\* backend finds nothing: the row's update time equals the backend's, and
\* an update of the row called again does not throw Conflict.
C31_RetryAfterFailedWrite ==
  ( /\ solo
    /\ Done(1)
    /\ call[1].op = "update"
    /\ call[1].result = "BackendError"
    /\ call[1].sent = <<"rowGet", "rowUpdate">>
    /\ HasRow(tab, call[1].model.row) )
  => /\ Outdated(tab, call[1].model) = {}
     /\ call[1].model.updated = typeRow(rowGet(tab, call[1].model.row)[1]).updated

\* ------------------------------------------------- update of a rekeyed row
\* Updates alone, called also with a row found in the Table whose key field
\* the caller has changed (to another key, or to none).
OtherKeys == {"", "b"}

Rekeyed(t) ==
  {[ref |-> i, rec |-> [rows[t][i] EXCEPT !.id = k]] :
     i \in DOMAIN rows[t], k \in OtherKeys}

NextKey ==
  \E t \in Tables :
    \/ RefreshCall(t)
    \/ RefreshDone(t)
    \/ BackendFails(t)
    \/ \E a \in Args(t) \cup Rekeyed(t) : UpdateCall(t, a.ref, a.rec, "direct")
    \/ UpdateChecked(t)
    \/ UpdateReplaced(t)
    \/ NoSuchRow(t)

SpecKey == Init /\ [][NextKey]_vars

C33_FindAgrees ==
  \A t \in Tables :
    (Ok(t) /\ call[t].clean) =>
      \A k \in Keys(rows[t]) :
        find(rows[t], index[t], k, "") = find(rows[t], index[t], k, keyColumn)

\* ------------------------------------------------------------ getSheetData
\* SheetsClient.getSheetData, one action per stretch between its awaits.
\* Every operation of the client starts with it; calls overlap when one is
\* started while another waits. A SheetData is named by the order in which
\* it was made.
Waiting == {"token_server_url", "sheet_id", "index"}

\* Operations of the client whose first statement awaits getSheetData.
ClientCalls == {"getProjects", "getCurrentProjects", "saveJudging"}

Moved(c, to) == client' = [client EXCEPT !.at[c] = to]

Framed == UNCHANGED <<tab, now, uuids, solo, table, inst, rows, index, pc, call>>

\* `if (this.sheetData) return this.sheetData`, else up to the first await.
getSheetData(c, o) ==
  /\ client.at[c] \notin Waiting
  /\ ops < MaxOps
  /\ ops' = ops + 1
  /\ IF client.sheetData # 0
     THEN client' = [client EXCEPT !.op[c] = o, !.at[c] = "done",
                                   !.data[c] = client.sheetData]
     ELSE client' = [client EXCEPT !.op[c] = o, !.at[c] = "token_server_url",
                                   !.data[c] = 0]
  /\ Framed

\* userAttributeGetItem('token_server_url') has answered.
TokenServerUrl(c) ==
  /\ client.at[c] = "token_server_url"
  /\ Moved(c, "sheet_id")
  /\ UNCHANGED ops
  /\ Framed

\* userAttributeGetItem('sheet_id') has answered: transport, session and a
\* new SheetSDK are made, and its index() is awaited.
SheetId(c) ==
  /\ client.at[c] = "sheet_id"
  /\ client' = [client EXCEPT !.at[c] = "index", !.sdks = @ + 1]
  /\ UNCHANGED ops
  /\ Framed

\* sheetSDK.index() has answered: `this.sheetData = initActiveSheet(...)`.
Indexed(c) ==
  /\ client.at[c] = "index"
  /\ client' = [client EXCEPT !.at[c] = "done", !.made = @ + 1,
                              !.sheetData = client.made + 1,
                              !.data[c] = client.made + 1]
  /\ UNCHANGED ops
  /\ Framed

\* An awaited call is rejected: getSheetData throws.
Rejected(c) ==
  /\ client.at[c] \in Waiting
  /\ Moved(c, "threw")
  /\ UNCHANGED ops
  /\ Framed

NextData ==
  \E c \in Callers :
    \/ \E o \in ClientCalls : getSheetData(c, o)
    \/ TokenServerUrl(c)
    \/ SheetId(c)
    \/ Indexed(c)
    \/ Rejected(c)

SpecData == Init /\ [][NextData]_vars

\* C34 (as stated): however the client's calls overlap, getSheetData makes
\* at most one SheetSDK and at most one SheetData, and all calls that got a
\* SheetData got the same one.
C34_InitOnce ==
  /\ client.sdks <= 1
  /\ client.made <= 1
  /\ \A c, d \in Callers :
       (client.data[c] # 0 /\ client.data[d] # 0) =>
         client.data[c] = client.data[d]

\* C35 (as stated): when the update that updateProject called on the row it
\* found has thrown Conflict, that row of the Table's rows has the field
\* values it had before updateProject was called.
C35_ConflictKeepsRow ==
  \A t \in Tables :
    ( /\ Done(t)
      /\ call[t].op = "update"
      /\ call[t].via = "direct"
      /\ call[t].ref > 0
      /\ call[t].result = "Conflict" )
    => rows[t][call[t].ref] = call[t].before

====
